---------------------------- MODULE Spec2Model ----------------------------
(***************************************************************************)
(* A model of the glam vector package: Vec3 (src/unnamed/part_000) and     *)
(* Vec4 (src/vec4.go).                                                     *)
(*                                                                         *)
(* Numbers.  A float32 is modelled as an extended rational [n, d]:         *)
(*   d > 0   the finite value n/d in lowest terms,                         *)
(*   d = 0   n = 1 is +Inf, n = -1 is -Inf, n = 0 is NaN.                  *)
(* The four arithmetic operators follow IEEE-754 on these values (Inf and  *)
(* NaN propagate, x/0 is Inf or NaN, Inf-Inf and 0*Inf are NaN).  Finite   *)
(* results are exact: rounding, overflow and the sign of zero are not      *)
(* modelled, and equality is equality of values (one NaN, one zero).       *)
(*                                                                         *)
(* State.  The package has no state of its own; the state is the caller's: *)
(* two variables a and b of the same family (both Vec3 or both Vec4), the  *)
(* call just made and the value it returned.  a is the receiver of every   *)
(* call and b its vector argument.                                         *)
(***************************************************************************)
EXTENDS Integers, FiniteSets, Sequences, TLC

VARIABLES a, b, pc, call, ret

vars == <<a, b, pc, call, ret>>

---------------------------------------------------------------------------
(* Bounds of the model *)

\* Coordinates of the vectors drawn at the start lie in -MaxCoord..MaxCoord.
MaxCoord == 2

\* Sqrt of a non-square is truncated to a multiple of 1/(d*SqrtPrec).
SqrtPrec == 4

---------------------------------------------------------------------------
(* float32 values and arithmetic *)

Abs(i) == IF i < 0 THEN -i ELSE i

RECURSIVE GCD(_, _)
GCD(x, y) == IF y = 0 THEN x ELSE GCD(y, x % y)

\* The finite value n/d (d # 0), in lowest terms with a positive denominator.
F(n, d) ==
    LET sn == IF d < 0 THEN -n ELSE n
        sd == Abs(d)
        g  == GCD(Abs(sn), sd)
    IN  [n |-> sn \div g, d |-> sd \div g]

Zero == [n |-> 0, d |-> 1]
One  == [n |-> 1, d |-> 1]
PInf == [n |-> 1, d |-> 0]
NInf == [n |-> -1, d |-> 0]
NaN  == [n |-> 0, d |-> 0]

IsNaN(x)    == x.d = 0 /\ x.n = 0
IsInf(x)    == x.d = 0 /\ x.n # 0
IsFinite(x) == x.d > 0
Sgn(x)      == IF x.n > 0 THEN 1 ELSE IF x.n < 0 THEN -1 ELSE 0

\* -x
FNeg(x) == [n |-> -x.n, d |-> x.d]

\* x + y
FAdd(x, y) ==
    IF IsNaN(x) \/ IsNaN(y) THEN NaN
    ELSE IF IsInf(x) THEN (IF IsInf(y) /\ y.n # x.n THEN NaN ELSE x)
    ELSE IF IsInf(y) THEN y
    ELSE F(x.n * y.d + y.n * x.d, x.d * y.d)

\* x - y
FSub(x, y) ==
    IF IsNaN(x) \/ IsNaN(y) THEN NaN
    ELSE IF IsInf(x) THEN (IF IsInf(y) /\ y.n = x.n THEN NaN ELSE x)
    ELSE IF IsInf(y) THEN [n |-> -y.n, d |-> 0]
    ELSE F(x.n * y.d - y.n * x.d, x.d * y.d)

\* x * y
FMul(x, y) ==
    IF IsNaN(x) \/ IsNaN(y) THEN NaN
    ELSE IF IsInf(x) \/ IsInf(y)
         THEN (IF Sgn(x) * Sgn(y) = 0 THEN NaN ELSE [n |-> Sgn(x) * Sgn(y), d |-> 0])
    ELSE F(x.n * y.n, x.d * y.d)

\* x / y
FDiv(x, y) ==
    IF IsNaN(x) \/ IsNaN(y) THEN NaN
    ELSE IF IsInf(x)
         THEN (IF IsInf(y) THEN NaN
               ELSE [n |-> (IF Sgn(y) < 0 THEN -x.n ELSE x.n), d |-> 0])
    ELSE IF IsInf(y) THEN Zero
    ELSE IF y.n = 0
         THEN (IF x.n = 0 THEN NaN ELSE [n |-> Sgn(x), d |-> 0])
    ELSE F(x.n * y.d, x.d * y.n)

\* The largest k with k*k <= m.
ISqrt(m) == CHOOSE k \in 0..m : k * k <= m /\ (k + 1) * (k + 1) > m

\* math.Sqrt: exact on squares of rationals, truncated otherwise.
Sqrt(x) ==
    IF IsNaN(x) \/ x.n < 0 THEN NaN
    ELSE IF IsInf(x) THEN PInf
    ELSE F(ISqrt(x.n * x.d * SqrtPrec * SqrtPrec), x.d * SqrtPrec)

\* Angles are named; Cos and Sin give their exact values.
AngleIn == {"zero", "quarter", "half", "pyth"}

\* math.Cos
Cos(angle) ==
    CASE angle = "zero"    -> One
      [] angle = "quarter" -> Zero
      [] angle = "half"    -> F(-1, 1)
      [] angle = "pyth"    -> F(3, 5)

\* math.Sin
Sin(angle) ==
    CASE angle = "zero"    -> Zero
      [] angle = "quarter" -> One
      [] angle = "half"    -> Zero
      [] angle = "pyth"    -> F(4, 5)

---------------------------------------------------------------------------
(* Vec3 *)

Vec3(x, y, z) == [X |-> x, Y |-> y, Z |-> z]
Vec4(x, y, z, w) == [X |-> x, Y |-> y, Z |-> z, W |-> w]
Vec2(x, y) == [X |-> x, Y |-> y]

IsVec3(v) == DOMAIN v = {"X", "Y", "Z"}
IsVec4(v) == DOMAIN v = {"X", "Y", "Z", "W"}

Vec3Homogenized(v) == Vec4(v.X, v.Y, v.Z, One)

Vec3HomogenizedAsDirection(v) == Vec4(v.X, v.Y, v.Z, Zero)

Vec3Dehomogenized(v) == Vec2(FDiv(v.X, v.Z), FDiv(v.Y, v.Z))

Vec3Plus(v, w) == Vec3(FAdd(v.X, w.X), FAdd(v.Y, w.Y), FAdd(v.Z, w.Z))

Vec3Add(v, w) ==
    LET v1 == [v  EXCEPT !.X = FAdd(v.X, w.X)]
        v2 == [v1 EXCEPT !.Y = FAdd(v1.Y, w.Y)]
        v3 == [v2 EXCEPT !.Z = FAdd(v2.Z, w.Z)]
    IN  v3

Vec3Minus(v, w) == Vec3(FSub(v.X, w.X), FSub(v.Y, w.Y), FSub(v.Z, w.Z))

Vec3Subtract(v, w) ==
    LET v1 == [v  EXCEPT !.X = FSub(v.X, w.X)]
        v2 == [v1 EXCEPT !.Y = FSub(v1.Y, w.Y)]
        v3 == [v2 EXCEPT !.Z = FSub(v2.Z, w.Z)]
    IN  v3

Vec3Inverse(v) == Vec3(FNeg(v.X), FNeg(v.Y), FNeg(v.Z))

Vec3Invert(v) ==
    LET v1 == [v  EXCEPT !.X = FNeg(v.X)]
        v2 == [v1 EXCEPT !.Y = FNeg(v1.Y)]
        v3 == [v2 EXCEPT !.Z = FNeg(v2.Z)]
    IN  v3

Vec3Times(v, s) == Vec3(FMul(v.X, s), FMul(v.Y, s), FMul(v.Z, s))

Vec3Multiply(v, s) ==
    LET v1 == [v  EXCEPT !.X = FMul(v.X, s)]
        v2 == [v1 EXCEPT !.Y = FMul(v1.Y, s)]
        v3 == [v2 EXCEPT !.Z = FMul(v2.Z, s)]
    IN  v3

Vec3Slash(v, s) == Vec3(FDiv(v.X, s), FDiv(v.Y, s), FDiv(v.Z, s))

Vec3Divide(v, s) ==
    LET v1 == [v  EXCEPT !.X = FDiv(v.X, s)]
        v2 == [v1 EXCEPT !.Y = FDiv(v1.Y, s)]
        v3 == [v2 EXCEPT !.Z = FDiv(v2.Z, s)]
    IN  v3

\* Vec3Cross with a sign slip in its Z component.
Vec3CrossSignSlip(v, w) ==
    Vec3(FSub(FMul(v.Y, w.Z), FMul(v.Z, w.Y)),
         FSub(FMul(v.Z, w.X), FMul(v.X, w.Z)),
         FAdd(FMul(v.X, w.Y), FMul(v.Y, w.X)))

Vec3Cross(v, w) ==
    Vec3(FSub(FMul(v.Y, w.Z), FMul(v.Z, w.Y)),
         FSub(FMul(v.Z, w.X), FMul(v.X, w.Z)),
         FSub(FMul(v.X, w.Y), FMul(v.Y, w.X)))

Vec3Dot(v, w) ==
    FAdd(FAdd(FMul(v.X, w.X), FMul(v.Y, w.Y)), FMul(v.Z, w.Z))

Vec3Length(v) ==
    Sqrt(FAdd(FAdd(FMul(v.X, v.X), FMul(v.Y, v.Y)), FMul(v.Z, v.Z)))

\* Vec3Normalized that returns a zero-length vector as it is.
Vec3NormalizedGuarded(v) ==
    LET length == Sqrt(FAdd(FAdd(FMul(v.X, v.X), FMul(v.Y, v.Y)), FMul(v.Z, v.Z)))
    IN  IF length = Zero THEN v
        ELSE Vec3(FDiv(v.X, length), FDiv(v.Y, length), FDiv(v.Z, length))

Vec3Normalized(v) ==
    LET length == Sqrt(FAdd(FAdd(FMul(v.X, v.X), FMul(v.Y, v.Y)), FMul(v.Z, v.Z)))
    IN  Vec3(FDiv(v.X, length), FDiv(v.Y, length), FDiv(v.Z, length))

Vec3Normalize(v) ==
    LET length == Sqrt(FAdd(FAdd(FMul(v.X, v.X), FMul(v.Y, v.Y)), FMul(v.Z, v.Z)))
        v1 == [v  EXCEPT !.X = FDiv(v.X, length)]
        v2 == [v1 EXCEPT !.Y = FDiv(v1.Y, length)]
        v3 == [v2 EXCEPT !.Z = FDiv(v2.Z, length)]
    IN  v3

Vec3RotateX(v, angle) ==
    IF angle = "zero" THEN v
    ELSE LET c == Cos(angle)
             s == Sin(angle)
         IN  Vec3(v.X,
                  FSub(FMul(v.Y, c), FMul(v.Z, s)),
                  FAdd(FMul(v.Y, s), FMul(v.Z, c)))

\* Vec3RotateY turning the other way (the signs of the s terms exchanged).
Vec3RotateYLeftHanded(v, angle) ==
    IF angle = "zero" THEN v
    ELSE LET c == Cos(angle)
             s == Sin(angle)
         IN  Vec3(FSub(FMul(v.X, c), FMul(v.Z, s)),
                  v.Y,
                  FAdd(FMul(v.X, s), FMul(v.Z, c)))

Vec3RotateY(v, angle) ==
    IF angle = "zero" THEN v
    ELSE LET c == Cos(angle)
             s == Sin(angle)
         IN  Vec3(FAdd(FMul(v.X, c), FMul(v.Z, s)),
                  v.Y,
                  FAdd(FMul(FNeg(v.X), s), FMul(v.Z, c)))

Vec3RotateZ(v, angle) ==
    IF angle = "zero" THEN v
    ELSE LET c == Cos(angle)
             s == Sin(angle)
         IN  Vec3(FSub(FMul(v.X, c), FMul(v.Y, s)),
                  FAdd(FMul(v.X, s), FMul(v.Y, c)),
                  v.Z)

\* Vec3RotateAxis without its angle == 0.0 return.
Vec3RotateAxisNoFastPath(v, axis, angle) ==
    LET c == Cos(angle)
        s == Sin(angle)
        onemc == FSub(One, c)
        u == Vec3Normalized(axis)
        rm0 == Vec3(
            FAdd(FMul(u.X, u.X), FMul(c, FSub(One, FMul(u.X, u.X)))),
            FSub(FMul(FMul(u.X, u.Y), onemc), FMul(s, u.Z)),
            FAdd(FMul(FMul(u.X, u.Z), onemc), FMul(s, u.Z)))
        rm1 == Vec3(
            FAdd(FMul(FMul(u.X, u.X), onemc), FMul(s, u.Z)),
            FAdd(FMul(u.Y, u.Y), FMul(c, FSub(One, FMul(u.Y, u.Y)))),
            FSub(FMul(FMul(u.Y, u.Z), onemc), FMul(s, u.X)))
        rm2 == Vec3(
            FSub(FMul(FMul(u.X, u.Z), onemc), FMul(s, u.Y)),
            FAdd(FMul(FMul(u.Y, u.Z), c), FMul(s, u.X)),
            FAdd(FMul(u.Z, u.Z), FMul(c, FSub(One, FMul(u.Z, u.Z)))))
    IN  Vec3(Vec3Dot(v, rm0), Vec3Dot(v, rm1), Vec3Dot(v, rm2))

Vec3RotateAxis(v, axis, angle) ==
    IF angle = "zero" THEN v
    ELSE LET c == Cos(angle)
             s == Sin(angle)
             onemc == FSub(One, c)
             u == Vec3Normalized(axis)
             rm0 == Vec3(
                 FAdd(FMul(u.X, u.X), FMul(c, FSub(One, FMul(u.X, u.X)))),
                 FSub(FMul(FMul(u.X, u.Y), onemc), FMul(s, u.Z)),
                 FAdd(FMul(FMul(u.X, u.Z), onemc), FMul(s, u.Z)))
             rm1 == Vec3(
                 FAdd(FMul(FMul(u.X, u.X), onemc), FMul(s, u.Z)),
                 FAdd(FMul(u.Y, u.Y), FMul(c, FSub(One, FMul(u.Y, u.Y)))),
                 FSub(FMul(FMul(u.Y, u.Z), onemc), FMul(s, u.X)))
             rm2 == Vec3(
                 FSub(FMul(FMul(u.X, u.Z), onemc), FMul(s, u.Y)),
                 FAdd(FMul(FMul(u.Y, u.Z), c), FMul(s, u.X)),
                 FAdd(FMul(u.Z, u.Z), FMul(c, FSub(One, FMul(u.Z, u.Z)))))
         IN  Vec3(Vec3Dot(v, rm0), Vec3Dot(v, rm1), Vec3Dot(v, rm2))

---------------------------------------------------------------------------
(* Vec4 *)

\* Vec4Dehomogenized dividing by Z, as Vec3's Dehomogenized does.
Vec4DehomogenizedByZ(v) == Vec3(FDiv(v.X, v.Z), FDiv(v.Y, v.Z), FDiv(v.Z, v.Z))

Vec4Dehomogenized(v) == Vec3(FDiv(v.X, v.W), FDiv(v.Y, v.W), FDiv(v.Z, v.W))

Vec4Plus(v, w) ==
    Vec4(FAdd(v.X, w.X), FAdd(v.Y, w.Y), FAdd(v.Z, w.Z), FAdd(v.W, w.W))

\* Vec4Add that leaves W alone, as Vec3's Add does.
Vec4AddForgetsW(v, w) ==
    LET v1 == [v  EXCEPT !.X = FAdd(v.X, w.X)]
        v2 == [v1 EXCEPT !.Y = FAdd(v1.Y, w.Y)]
        v3 == [v2 EXCEPT !.Z = FAdd(v2.Z, w.Z)]
    IN  v3

Vec4Add(v, w) ==
    LET v1 == [v  EXCEPT !.X = FAdd(v.X, w.X)]
        v2 == [v1 EXCEPT !.Y = FAdd(v1.Y, w.Y)]
        v3 == [v2 EXCEPT !.Z = FAdd(v2.Z, w.Z)]
        v4 == [v3 EXCEPT !.W = FAdd(v3.W, w.W)]
    IN  v4

\* Vec4Minus that adds the W components.
Vec4MinusAddsW(v, w) ==
    Vec4(FSub(v.X, w.X), FSub(v.Y, w.Y), FSub(v.Z, w.Z), FAdd(v.W, w.W))

Vec4Minus(v, w) ==
    Vec4(FSub(v.X, w.X), FSub(v.Y, w.Y), FSub(v.Z, w.Z), FSub(v.W, w.W))

Vec4Subtract(v, w) ==
    LET v1 == [v  EXCEPT !.X = FSub(v.X, w.X)]
        v2 == [v1 EXCEPT !.Y = FSub(v1.Y, w.Y)]
        v3 == [v2 EXCEPT !.Z = FSub(v2.Z, w.Z)]
        v4 == [v3 EXCEPT !.W = FSub(v3.W, w.W)]
    IN  v4

Vec4Inverse(v) == Vec4(FNeg(v.X), FNeg(v.Y), FNeg(v.Z), FNeg(v.W))

Vec4Invert(v) ==
    LET v1 == [v  EXCEPT !.X = FNeg(v.X)]
        v2 == [v1 EXCEPT !.Y = FNeg(v1.Y)]
        v3 == [v2 EXCEPT !.Z = FNeg(v2.Z)]
        v4 == [v3 EXCEPT !.W = FNeg(v3.W)]
    IN  v4

Vec4Times(v, s) ==
    Vec4(FMul(v.X, s), FMul(v.Y, s), FMul(v.Z, s), FMul(v.W, s))

Vec4Multiply(v, s) ==
    LET v1 == [v  EXCEPT !.X = FMul(v.X, s)]
        v2 == [v1 EXCEPT !.Y = FMul(v1.Y, s)]
        v3 == [v2 EXCEPT !.Z = FMul(v2.Z, s)]
        v4 == [v3 EXCEPT !.W = FMul(v3.W, s)]
    IN  v4

Vec4Slash(v, s) ==
    Vec4(FDiv(v.X, s), FDiv(v.Y, s), FDiv(v.Z, s), FDiv(v.W, s))

Vec4Divide(v, s) ==
    LET v1 == [v  EXCEPT !.X = FDiv(v.X, s)]
        v2 == [v1 EXCEPT !.Y = FDiv(v1.Y, s)]
        v3 == [v2 EXCEPT !.Z = FDiv(v2.Z, s)]
        v4 == [v3 EXCEPT !.W = FDiv(v3.W, s)]
    IN  v4

Vec4Cross(v, w) ==
    Vec4(FSub(FMul(v.Y, w.Z), FMul(v.Z, w.Y)),
         FSub(FMul(v.Z, w.X), FMul(v.X, w.Z)),
         FSub(FMul(v.X, w.Y), FMul(v.Y, w.X)),
         v.W)

Vec4Dot(v, w) ==
    FAdd(FAdd(FAdd(FMul(v.X, w.X), FMul(v.Y, w.Y)), FMul(v.Z, w.Z)), FMul(v.W, w.W))

Vec4Dot3(v, w) ==
    FAdd(FAdd(FMul(v.X, w.X), FMul(v.Y, w.Y)), FMul(v.Z, w.Z))

Vec4Length(v) ==
    Sqrt(FAdd(FAdd(FAdd(FMul(v.X, v.X), FMul(v.Y, v.Y)), FMul(v.Z, v.Z)),
              FMul(v.W, v.W)))

Vec4Normalized(v) ==
    LET length == Sqrt(FAdd(FAdd(FAdd(FMul(v.X, v.X), FMul(v.Y, v.Y)),
                                 FMul(v.Z, v.Z)), FMul(v.W, v.W)))
    IN  Vec4(FDiv(v.X, length), FDiv(v.Y, length), FDiv(v.Z, length),
             FDiv(v.W, length))

Vec4Normalize(v) ==
    LET length == Sqrt(FAdd(FAdd(FAdd(FMul(v.X, v.X), FMul(v.Y, v.Y)),
                                 FMul(v.Z, v.Z)), FMul(v.W, v.W)))
        v1 == [v  EXCEPT !.X = FDiv(v.X, length)]
        v2 == [v1 EXCEPT !.Y = FDiv(v1.Y, length)]
        v3 == [v2 EXCEPT !.Z = FDiv(v2.Z, length)]
        v4 == [v3 EXCEPT !.W = FDiv(v3.W, length)]
    IN  v4

---------------------------------------------------------------------------
(* The caller: inputs, calls and results *)

Coord    == {F(i, 1) : i \in -MaxCoord..MaxCoord}
ArgCoord == {F(i, 1) : i \in 0..MaxCoord}

\* Receivers with non-finite components.
SpecialVec3 == {Vec3(PInf, Zero, One), Vec3(One, NaN, NInf)}
SpecialVec4 == {Vec4(PInf, Zero, One, One), Vec4(Zero, NaN, One, NInf)}

Vec3In    == {Vec3(x, y, z) : x \in Coord, y \in Coord, z \in Coord} \cup SpecialVec3
Vec3ArgIn == {Vec3(x, y, z) : x \in ArgCoord, y \in ArgCoord, z \in ArgCoord}
Vec4In    == {Vec4(v.X, v.Y, v.Z, w) : v \in Vec3In \ SpecialVec3, w \in ArgCoord}
                 \cup SpecialVec4
Vec4ArgIn == {Vec4(x, y, z, w) : x \in {Zero, One}, y \in {Zero, One},
                                   z \in {Zero, One}, w \in {Zero, One}}

ScalarIn == {Zero, F(2, 1), F(-1, 2)}

\* No call made yet, and the result of a method that returns nothing.
NoCall == [op |-> "none", args |-> <<>>]
Void   == [void |-> TRUE]

\* The in-place methods (pointer receivers).
InPlaceOps == {"Vec3.Add", "Vec3.Subtract", "Vec3.Invert", "Vec3.Multiply",
               "Vec3.Divide", "Vec3.Normalize",
               "Vec4.Add", "Vec4.Subtract", "Vec4.Invert", "Vec4.Multiply",
               "Vec4.Divide", "Vec4.Normalize"}

Init ==
    /\ \/ a \in Vec3In /\ b \in Vec3ArgIn
       \/ a \in Vec4In /\ b \in Vec4ArgIn
    /\ pc = "ready"
    /\ call = NoCall
    /\ ret = Void

\* A method with a value receiver: the receiver is a copy, the caller's a stays.
Pure(op, args, result) ==
    /\ pc = "ready"
    /\ pc' = "called"
    /\ call' = [op |-> op, args |-> args]
    /\ ret' = result
    /\ a' = a
    /\ b' = b

\* A method with a pointer receiver: the caller's a becomes newA.
InPlace(op, args, newA) ==
    /\ pc = "ready"
    /\ pc' = "called"
    /\ call' = [op |-> op, args |-> args]
    /\ ret' = Void
    /\ a' = newA
    /\ b' = b

CallVec3Homogenized ==
    IsVec3(a) /\ Pure("Vec3.Homogenized", <<>>, Vec3Homogenized(a))

CallVec3HomogenizedAsDirection ==
    IsVec3(a) /\ Pure("Vec3.HomogenizedAsDirection", <<>>, Vec3HomogenizedAsDirection(a))

CallVec3Dehomogenized ==
    IsVec3(a) /\ Pure("Vec3.Dehomogenized", <<>>, Vec3Dehomogenized(a))

CallVec3Inverse ==
    IsVec3(a) /\ Pure("Vec3.Inverse", <<>>, Vec3Inverse(a))

CallVec3Length ==
    IsVec3(a) /\ Pure("Vec3.Length", <<>>, Vec3Length(a))

\* Normalized writing its result through the receiver, as Normalize does.
CallVec3NormalizedThroughPointer ==
    /\ IsVec3(a)
    /\ pc = "ready"
    /\ pc' = "called"
    /\ call' = [op |-> "Vec3.Normalized", args |-> <<>>]
    /\ ret' = Vec3Normalized(a)
    /\ a' = Vec3Normalized(a)
    /\ b' = b

CallVec3Normalized ==
    IsVec3(a) /\ Pure("Vec3.Normalized", <<>>, Vec3Normalized(a))

CallVec3Plus ==
    IsVec3(a) /\ Pure("Vec3.Plus", <<>>, Vec3Plus(a, b))

CallVec3Minus ==
    IsVec3(a) /\ Pure("Vec3.Minus", <<>>, Vec3Minus(a, b))

CallVec3Cross ==
    IsVec3(a) /\ Pure("Vec3.Cross", <<>>, Vec3Cross(a, b))

CallVec3Dot ==
    IsVec3(a) /\ Pure("Vec3.Dot", <<>>, Vec3Dot(a, b))

CallVec3Times ==
    IsVec3(a) /\ \E s \in ScalarIn : Pure("Vec3.Times", <<s>>, Vec3Times(a, s))

CallVec3Slash ==
    IsVec3(a) /\ \E s \in ScalarIn : Pure("Vec3.Slash", <<s>>, Vec3Slash(a, s))

CallVec3Add ==
    IsVec3(a) /\ InPlace("Vec3.Add", <<>>, Vec3Add(a, b))

CallVec3Subtract ==
    IsVec3(a) /\ InPlace("Vec3.Subtract", <<>>, Vec3Subtract(a, b))

CallVec3Invert ==
    IsVec3(a) /\ InPlace("Vec3.Invert", <<>>, Vec3Invert(a))

CallVec3Normalize ==
    IsVec3(a) /\ InPlace("Vec3.Normalize", <<>>, Vec3Normalize(a))

CallVec3Multiply ==
    IsVec3(a) /\ \E s \in ScalarIn : InPlace("Vec3.Multiply", <<s>>, Vec3Multiply(a, s))

CallVec3Divide ==
    IsVec3(a) /\ \E s \in ScalarIn : InPlace("Vec3.Divide", <<s>>, Vec3Divide(a, s))

CallVec3RotateX ==
    IsVec3(a) /\ \E angle \in AngleIn : Pure("Vec3.RotateX", <<angle>>, Vec3RotateX(a, angle))

CallVec3RotateY ==
    IsVec3(a) /\ \E angle \in AngleIn : Pure("Vec3.RotateY", <<angle>>, Vec3RotateY(a, angle))

CallVec3RotateZ ==
    IsVec3(a) /\ \E angle \in AngleIn : Pure("Vec3.RotateZ", <<angle>>, Vec3RotateZ(a, angle))

CallVec3RotateAxis ==
    IsVec3(a) /\ \E angle \in AngleIn : Pure("Vec3.RotateAxis", <<angle>>, Vec3RotateAxis(a, b, angle))

CallVec4Dehomogenized ==
    IsVec4(a) /\ Pure("Vec4.Dehomogenized", <<>>, Vec4Dehomogenized(a))

CallVec4Inverse ==
    IsVec4(a) /\ Pure("Vec4.Inverse", <<>>, Vec4Inverse(a))

CallVec4Length ==
    IsVec4(a) /\ Pure("Vec4.Length", <<>>, Vec4Length(a))

CallVec4Normalized ==
    IsVec4(a) /\ Pure("Vec4.Normalized", <<>>, Vec4Normalized(a))

CallVec4Plus ==
    IsVec4(a) /\ Pure("Vec4.Plus", <<>>, Vec4Plus(a, b))

CallVec4Minus ==
    IsVec4(a) /\ Pure("Vec4.Minus", <<>>, Vec4Minus(a, b))

CallVec4Cross ==
    IsVec4(a) /\ Pure("Vec4.Cross", <<>>, Vec4Cross(a, b))

CallVec4Dot ==
    IsVec4(a) /\ Pure("Vec4.Dot", <<>>, Vec4Dot(a, b))

CallVec4Dot3 ==
    IsVec4(a) /\ Pure("Vec4.Dot3", <<>>, Vec4Dot3(a, b))

CallVec4Times ==
    IsVec4(a) /\ \E s \in ScalarIn : Pure("Vec4.Times", <<s>>, Vec4Times(a, s))

CallVec4Slash ==
    IsVec4(a) /\ \E s \in ScalarIn : Pure("Vec4.Slash", <<s>>, Vec4Slash(a, s))

CallVec4Add ==
    IsVec4(a) /\ InPlace("Vec4.Add", <<>>, Vec4Add(a, b))

CallVec4Subtract ==
    IsVec4(a) /\ InPlace("Vec4.Subtract", <<>>, Vec4Subtract(a, b))

CallVec4Invert ==
    IsVec4(a) /\ InPlace("Vec4.Invert", <<>>, Vec4Invert(a))

CallVec4Normalize ==
    IsVec4(a) /\ InPlace("Vec4.Normalize", <<>>, Vec4Normalize(a))

CallVec4Multiply ==
    IsVec4(a) /\ \E s \in ScalarIn : InPlace("Vec4.Multiply", <<s>>, Vec4Multiply(a, s))

CallVec4Divide ==
    IsVec4(a) /\ \E s \in ScalarIn : InPlace("Vec4.Divide", <<s>>, Vec4Divide(a, s))

\* Every coordinate of v is an integer within the bound.
InGrid(v) == \A f \in DOMAIN v : v[f] \in Coord

\* The caller drops the result and goes on to the next call, while the
\* receiver stays within the bound.
Proceed ==
    /\ pc = "called"
    /\ InGrid(a)
    /\ pc' = "ready"
    /\ call' = NoCall
    /\ ret' = Void
    /\ UNCHANGED <<a, b>>

Next ==
    \/ CallVec3Homogenized
    \/ CallVec3HomogenizedAsDirection
    \/ CallVec3Dehomogenized
    \/ CallVec3Inverse
    \/ CallVec3Length
    \/ CallVec3Normalized
    \/ CallVec3Plus
    \/ CallVec3Minus
    \/ CallVec3Cross
    \/ CallVec3Dot
    \/ CallVec3Times
    \/ CallVec3Slash
    \/ CallVec3Add
    \/ CallVec3Subtract
    \/ CallVec3Invert
    \/ CallVec3Normalize
    \/ CallVec3Multiply
    \/ CallVec3Divide
    \/ CallVec3RotateX
    \/ CallVec3RotateY
    \/ CallVec3RotateZ
    \/ CallVec3RotateAxis
    \/ CallVec4Dehomogenized
    \/ CallVec4Inverse
    \/ CallVec4Length
    \/ CallVec4Normalized
    \/ CallVec4Plus
    \/ CallVec4Minus
    \/ CallVec4Cross
    \/ CallVec4Dot
    \/ CallVec4Dot3
    \/ CallVec4Times
    \/ CallVec4Slash
    \/ CallVec4Add
    \/ CallVec4Subtract
    \/ CallVec4Invert
    \/ CallVec4Normalize
    \/ CallVec4Multiply
    \/ CallVec4Divide
    \/ Proceed

Spec == Init /\ [][Next]_vars

---------------------------------------------------------------------------
(* Properties *)

Zero3 == Vec3(Zero, Zero, Zero)
Zero4 == Vec4(Zero, Zero, Zero, Zero)
AxisZ == Vec3(Zero, Zero, One)

Called(op) == pc = "called" /\ call.op = op

Finite(v)    == \A f \in DOMAIN v : IsFinite(v[f])
NonFinite(v) == \A f \in DOMAIN v : ~IsFinite(v[f])

\* The Rodrigues rotation matrix of the unit axis u and of c, s, applied to v.
Rodrigues(v, u, c, s) ==
    LET omc == FSub(One, c)
        rm0 == Vec3(FAdd(c, FMul(FMul(u.X, u.X), omc)),
                    FSub(FMul(FMul(u.X, u.Y), omc), FMul(s, u.Z)),
                    FAdd(FMul(FMul(u.X, u.Z), omc), FMul(s, u.Y)))
        rm1 == Vec3(FAdd(FMul(FMul(u.X, u.Y), omc), FMul(s, u.Z)),
                    FAdd(c, FMul(FMul(u.Y, u.Y), omc)),
                    FSub(FMul(FMul(u.Y, u.Z), omc), FMul(s, u.X)))
        rm2 == Vec3(FSub(FMul(FMul(u.X, u.Z), omc), FMul(s, u.Y)),
                    FAdd(FMul(FMul(u.Y, u.Z), omc), FMul(s, u.X)),
                    FAdd(c, FMul(FMul(u.Z, u.Z), omc)))
    IN  Vec3(Vec3Dot(v, rm0), Vec3Dot(v, rm1), Vec3Dot(v, rm2))

\* C1: v.RotateAxis((0,0,1), angle) equals v.RotateZ(angle) in all three
\* components, for every v and angle.
C1_RotateAxisZIsRotateZ ==
    (Called("Vec3.RotateAxis") /\ b = AxisZ /\ Finite(a))
        => ret = Vec3RotateZ(a, call.args[1])

\* C2: for a non-zero axis with normalization u, v.RotateAxis(axis, angle) is
\* v times the Rodrigues matrix of u, Cos(angle), Sin(angle).
C2_RotateAxisIsRodrigues ==
    (Called("Vec3.RotateAxis") /\ b # Zero3 /\ Finite(a))
        => ret = Rodrigues(a, Vec3Normalized(b), Cos(call.args[1]), Sin(call.args[1]))

\* C3: with angle == 0, RotateX, RotateY, RotateZ and RotateAxis return the
\* receiver itself, whatever its components and whatever the axis.
C3_ZeroAngleReturnsReceiver ==
    (/\ pc = "called"
     /\ call.op \in {"Vec3.RotateX", "Vec3.RotateY", "Vec3.RotateZ", "Vec3.RotateAxis"}
     /\ call.args[1] = "zero")
        => ret = a

C3_Witness ==
    /\ Called("Vec3.RotateAxis")
    /\ call.args[1] = "zero"
    /\ b = Zero3
    /\ a = Vec3(PInf, Zero, One)
    /\ ret = a

\* C4: each in-place method leaves in its receiver exactly the value its pure
\* counterpart returns on the receiver's old value, for Vec3 and Vec4.
C4_InPlaceEqualsPure ==
    [][/\ call'.op = "Vec3.Add"       => a' = Vec3Plus(a, b)
       /\ call'.op = "Vec3.Subtract"  => a' = Vec3Minus(a, b)
       /\ call'.op = "Vec3.Invert"    => a' = Vec3Inverse(a)
       /\ call'.op = "Vec3.Multiply"  => a' = Vec3Times(a, call'.args[1])
       /\ call'.op = "Vec3.Divide"    => a' = Vec3Slash(a, call'.args[1])
       /\ call'.op = "Vec3.Normalize" => a' = Vec3Normalized(a)
       /\ call'.op = "Vec4.Add"       => a' = Vec4Plus(a, b)
       /\ call'.op = "Vec4.Subtract"  => a' = Vec4Minus(a, b)
       /\ call'.op = "Vec4.Invert"    => a' = Vec4Inverse(a)
       /\ call'.op = "Vec4.Multiply"  => a' = Vec4Times(a, call'.args[1])
       /\ call'.op = "Vec4.Divide"    => a' = Vec4Slash(a, call'.args[1])
       /\ call'.op = "Vec4.Normalize" => a' = Vec4Normalized(a)]_vars

C4_Witness ==
    /\ Called("Vec4.Add")
    /\ b = Vec4(One, Zero, One, One)
    /\ a = Vec4(Zero, One, One, F(2, 1))

\* C5: Cross is anti-commutative: a.Cross(b) is b.Cross(a).Inverse() in X, Y, Z
\* (all of Vec3), and a Vec4 Cross copies W from its left operand.
C5_CrossAntiCommutative ==
    /\ Called("Vec3.Cross") => ret = Vec3Inverse(Vec3Cross(b, a))
    /\ Called("Vec4.Cross") =>
          LET r == Vec4Inverse(Vec4Cross(b, a))
          IN  /\ ret.X = r.X
              /\ ret.Y = r.Y
              /\ ret.Z = r.Z
              /\ ret.W = a.W
              /\ Vec4Cross(b, a).W = b.W

C5_Witness ==
    /\ Called("Vec4.Cross")
    /\ ret.Z # Zero
    /\ ret.X # Zero
    /\ a.W # b.W

\* C6: v.Homogenized() has W = 1 and the X, Y, Z of v, and dehomogenizing it
\* gives v back, also when v.Z is 0.
C6_HomogenizedRoundTrip ==
    Called("Vec3.Homogenized") =>
        /\ ret = Vec4(a.X, a.Y, a.Z, One)
        /\ Vec4Dehomogenized(ret) = a

C6_Witness ==
    /\ Called("Vec3.Homogenized")
    /\ a.Z = Zero
    /\ a.X = F(-1, 1)
    /\ Vec4Dehomogenized(ret) = a

\* C7: a variable changes only as the receiver of an in-place method: a pure
\* method leaves receiver and argument as they were, an in-place one its argument.
C7_OnlyInPlaceMutates ==
    [][/\ b' = b
       /\ call'.op \notin InPlaceOps => a' = a]_vars

C7_Witness ==
    /\ Called("Vec3.Normalized")
    /\ a = Vec3(Zero, F(-1, 1), Zero)
    /\ ret = Vec3(Zero, F(-1, 1), Zero)

\* C8: nothing is validated: a zero divisor, a zero vector to normalize, a zero
\* Z or W to dehomogenize and a zero axis with a non-zero angle all return (or
\* store) components that are infinite or NaN.
C8_NoValidation ==
    [][/\ (call'.op \in {"Vec3.Slash", "Vec4.Slash"} /\ call'.args[1] = Zero)
              => NonFinite(ret')
       /\ (call'.op \in {"Vec3.Divide", "Vec4.Divide"} /\ call'.args[1] = Zero)
              => NonFinite(a')
       /\ (call'.op \in {"Vec3.Normalized", "Vec4.Normalized"} /\ a \in {Zero3, Zero4})
              => NonFinite(ret')
       /\ (call'.op \in {"Vec3.Normalize", "Vec4.Normalize"} /\ a \in {Zero3, Zero4})
              => NonFinite(a')
       /\ (call'.op = "Vec3.Dehomogenized" /\ a.Z = Zero) => NonFinite(ret')
       /\ (call'.op = "Vec4.Dehomogenized" /\ a.W = Zero) => NonFinite(ret')
       /\ (call'.op = "Vec3.RotateAxis" /\ b = Zero3 /\ call'.args[1] # "zero")
              => NonFinite(ret')]_vars

C8_Witness ==
    /\ Called("Vec3.RotateAxis")
    /\ b = Zero3
    /\ call.args[1] = "quarter"
    /\ a = Vec3(One, Zero, F(-1, 1))
    /\ ret = Vec3(NaN, NaN, NaN)

\* The sum of two vectors with integer coordinates, by integer addition.
IntSum(v, w) == [f \in DOMAIN v |-> [n |-> v[f].n + w[f].n, d |-> 1]]

\* C9: a.Minus(b) equals a.Plus(b.Inverse()), and a.Plus(b) is the
\* componentwise sum and equals b.Plus(a), for Vec3 and Vec4.
C9_MinusIsPlusInverse ==
    /\ Called("Vec3.Minus") => ret = Vec3Plus(a, Vec3Inverse(b))
    /\ Called("Vec4.Minus") => ret = Vec4Plus(a, Vec4Inverse(b))
    /\ Called("Vec3.Plus")  => ret = Vec3Plus(b, a) /\ (InGrid(a) => ret = IntSum(a, b))
    /\ Called("Vec4.Plus")  => ret = Vec4Plus(b, a) /\ (InGrid(a) => ret = IntSum(a, b))

C9_Witness ==
    /\ Called("Vec4.Minus")
    /\ a = Vec4(One, Zero, F(-1, 1), Zero)
    /\ b = Vec4(One, One, Zero, One)
    /\ ret = Vec4(Zero, F(-1, 1), F(-1, 1), F(-1, 1))

\* c*c + s*s == 1 for the cosine and sine of the angle.
OnUnitCircle(angle) ==
    FAdd(FMul(Cos(angle), Cos(angle)), FMul(Sin(angle), Sin(angle))) = One

\* C10: RotateX, RotateY, RotateZ are right-handed rotations: with c*c + s*s == 1
\* each keeps the component along its axis and v.Dot(v); a quarter turn takes
\* (1,0,0) to (0,1,0) about Z, (0,1,0) to (0,0,1) about X, (0,0,1) to (1,0,0) about Y.
C10_PrincipalRotations ==
    LET angle == call.args[1]
        keeps == (Finite(a) /\ OnUnitCircle(angle)) => Vec3Dot(ret, ret) = Vec3Dot(a, a)
    IN  /\ Called("Vec3.RotateX") =>
              /\ ret.X = a.X
              /\ keeps
              /\ (angle = "quarter" /\ a = Vec3(Zero, One, Zero)) => ret = Vec3(Zero, Zero, One)
        /\ Called("Vec3.RotateY") =>
              /\ ret.Y = a.Y
              /\ keeps
              /\ (angle = "quarter" /\ a = Vec3(Zero, Zero, One)) => ret = Vec3(One, Zero, Zero)
        /\ Called("Vec3.RotateZ") =>
              /\ ret.Z = a.Z
              /\ keeps
              /\ (angle = "quarter" /\ a = Vec3(One, Zero, Zero)) => ret = Vec3(Zero, One, Zero)

C10_Witness ==
    /\ Called("Vec3.RotateY")
    /\ call.args[1] = "pyth"
    /\ a = Vec3(One, F(-1, 1), One)
    /\ ret = Vec3(F(7, 5), F(-1, 1), F(-1, 5))

===========================================================================
